---- MODULE Spec2Model ----
(***************************************************************************)
(* Inventory ledger and stock-movement engine of the WMS + Procurement     *)
(* application (src/app.py): the inventory and stock_movements tables, the *)
(* engine functions get_or_create_inv, inventory_in, inventory_out and     *)
(* transfer_stock, and the request handlers that run them inside           *)
(* `with engine.begin() as conn:` transactions: Record Goods Receipt,      *)
(* Transfer, Create Delivery Order and Ship, with Create Requisition (the  *)
(* one caller of log()) and the reports page beside them.                  *)
(*                                                                         *)
(* Quantities are integers in millionths of a unit (Unit = 1.000000).      *)
(* The storage is the default SQLite file: a SELECT issued before the      *)
(* first INSERT/UPDATE of a transaction reads the committed tables without *)
(* holding a lock, the first INSERT/UPDATE takes the database write lock   *)
(* (waiting while another transaction holds it), and the writes of a       *)
(* transaction become visible to the others at its commit.                 *)
(***************************************************************************)
EXTENDS Integers, Sequences, FiniteSets, TLC

VARIABLES inventory, stock_movements, clock, lock, txInv, txMov,
          pc, req, legs, row, result, overlap, ops,
          documents, txDoc, audit_logs, report, current_do

vars == <<inventory, stock_movements, clock, lock, txInv, txMov,
          pc, req, legs, row, result, overlap, ops,
          documents, txDoc, audit_logs, report, current_do>>

\* ------------------------------------------------------------------ bounds
MaxOps == 3
MaxClock == 1
MaxCalls == 2

\* --------------------------------------------------------------- constants
Unit == 1000000
Milli == 1000
NULL == 0
NoLock == 0
Procs == {1, 2}
Warehouses == {1, 2}
Items == {1}
ReceivingWarehouses == {1}
TransferRoutes == {<<1, 2>>, <<1, 1>>}
InQuantities == {0 - 8 * Unit, 10 * Unit}
OutQuantities == {8 * Unit}
TransferQuantities == {0, 8 * Unit}
PurchaseOrders == {1, 2}
ShippingWarehouses == {1}

\* ----------------------------------------------------------- pure helpers
\* Column("qty", Numeric(14,3)): a stored quantity is read back with three
\* decimals (MySQL DECIMAL(14,3) rounds on write, SQLite's result processor
\* formats "%.3f" on read; the engine only ever sees the rounded value).
Numeric3(q) == ((q + Milli \div 2) \div Milli) * Milli

\* float(q) of the quantities carrying a sixth decimal: the double nearest to
\* 30.000001 is 30.000001000000001027..., above the decimal value, so
\* 30.0 - 30.000001 evaluates to -1.0000000010279564e-06.
RoundsUp == {30 * Unit + 1}

\* `new_qty < -1e-6` of inventory_out, on cur = float(row["qty"]) and
\* q = float(qty); the subtraction of two doubles this close is exact, so
\* only a difference of exactly one millionth depends on the rounding of q.
BelowEps(cur, q) ==
  LET d == cur - q
  IN  IF d = 0 - 1 THEN q \in RoundsUp ELSE d < 0 - 1

\* now_ts_id(prefix): the prefix followed by the clock in whole seconds.
now_ts_id(prefix) == <<prefix, clock>>

\* select(inventory).where(warehouse_id == .., item_id == .., bin_id IS ..)
\* .mappings().first(): the id of the first matching row, 0 when none.
SelectInv(inv, wh, item, bin) ==
  LET hits == {i \in 1..Len(inv) : /\ inv[i].warehouse_id = wh
                                   /\ inv[i].item_id = item
                                   /\ inv[i].bin_id = bin}
  IN  IF hits = {} THEN 0 ELSE CHOOSE i \in hits : \A j \in hits : i <= j

\* Variant of the insert: the new row starts at one unit instead of 0.
InsertInvOne(inv, wh, item, bin) ==
  Append(inv, [warehouse_id |-> wh, item_id |-> item, bin_id |-> bin, qty |-> Unit])

\* inventory.insert().values(warehouse_id, item_id, bin_id, qty=0)
InsertInv(inv, wh, item, bin) ==
  Append(inv, [warehouse_id |-> wh, item_id |-> item, bin_id |-> bin, qty |-> 0])

\* get_or_create_inv run on one connection's view of the table.
GetOrCreateInv(inv, wh, item, bin) ==
  LET i == SelectInv(inv, wh, item, bin)
  IN  IF i # 0
      THEN [inv |-> inv, id |-> i]
      ELSE LET inv2 == InsertInv(inv, wh, item, bin)
           IN  [inv |-> inv2, id |-> SelectInv(inv2, wh, item, bin)]

\* Variant of the update: the WHERE clause names the item instead of the row,
\* so every line of the item gets the new quantity.
UpdateQtyByItem(inv, id, new_qty) ==
  [k \in 1..Len(inv) |->
     IF inv[k].item_id = inv[id].item_id
       THEN [inv[k] EXCEPT !.qty = Numeric3(new_qty)]
       ELSE inv[k]]

\* Variant of the update: a line whose quantity becomes zero is removed from
\* the table instead of being kept as a zero row.
UpdateQtyPrune(inv, id, new_qty) ==
  IF Numeric3(new_qty) = 0
    THEN SubSeq(inv, 1, id - 1) \o SubSeq(inv, id + 1, Len(inv))
    ELSE [inv EXCEPT ![id].qty = Numeric3(new_qty)]

\* inventory.update().where(inventory.c.id == id).values(qty=new_qty)
UpdateQty(inv, id, new_qty) == [inv EXCEPT ![id].qty = Numeric3(new_qty)]

\* movement_no is UNIQUE: an insert with a number already present is rejected.
Clashes(mov, no) == \E i \in 1..Len(mov) : mov[i].movement_no = no

Movement(no, type, wh, whTo, item, bin, qty, reason, refEntity, refId) ==
  [movement_no |-> no, movement_type |-> type, warehouse_id |-> wh,
   warehouse_to_id |-> whTo, item_id |-> item, bin_id |-> bin,
   qty |-> Numeric3(qty), reason |-> reason, ref_entity |-> refEntity,
   ref_id |-> refId]

\* Variant of the insert: one movement row is kept per kind and reference
\* document, a later movement for the same document replaces the earlier row.
UpsertMovement(mov, rec) ==
  LET same == {i \in 1..Len(mov) : /\ mov[i].movement_type = rec.movement_type
                                   /\ mov[i].ref_entity = rec.ref_entity
                                   /\ mov[i].ref_id = rec.ref_id}
  IN  IF same = {} THEN Append(mov, rec)
      ELSE [mov EXCEPT ![CHOOSE i \in same : TRUE] = rec]

\* conn.execute(stock_movements.insert().values(...)): a new row at the end.
AppendMovement(mov, rec) == Append(mov, rec)

\* ---------------------------------------------------------------- requests
Leg(op, wh, whTo, item, bin, qty, reason, refEntity, refId) ==
  [op |-> op, wh |-> wh, whTo |-> whTo, item |-> item, bin |-> bin,
   qty |-> qty, reason |-> reason, ref_entity |-> refEntity, ref_id |-> refId]

\* transfer_stock: inventory_out(wh_from), inventory_in(wh_to), marker row.
TransferLegs(whFrom, whTo, item, qty) ==
  << Leg("OUT", whFrom, NULL, item, NULL, qty, "DELIVERY", "TRANSFER", 0),
     Leg("IN", whTo, NULL, item, NULL, qty, "GRN", "TRANSFER", 0),
     Leg("MARK", whFrom, whTo, item, NULL, qty, "TRANSFER", "TRANSFER", 0) >>

Request(kind, wh, whTo, item, bin, qty) ==
  [kind |-> kind, wh |-> wh, whTo |-> whTo, item |-> item, bin |-> bin, qty |-> qty,
   doc |-> NULL]

\* A request of a handler that works on a document: the goods receipt of a
\* purchase order, the shipment of a delivery, a new requisition.
DocRequest(kind, wh, doc) ==
  [Request(kind, wh, NULL, 0, NULL, 0) EXCEPT !.doc = doc]

\* po_items: the lines of the purchase orders, the item their item_desc names,
\* their qty and their unit_price in cents; the first order has one line, the
\* second two.
po_items(po) ==
  IF po = 1 THEN << [item |-> 1, qty |-> 10 * Unit, unit_price |-> 250] >>
  ELSE << [item |-> 1, qty |-> 10 * Unit, unit_price |-> 250],
          [item |-> 1, qty |-> 10 * Unit, unit_price |-> 250] >>

\* The tables the handlers around the engine write, with no row in them.
EmptyDocuments ==
  [goods_receipts |-> << >>,
   purchase_orders |-> [po \in PurchaseOrders |-> "none"],
   items |-> {},
   deliveries |-> << >>,
   delivery_items |-> << >>,
   requisitions |-> << >>,
   invoices |-> << >>,
   invoice_items |-> << >>,
   payments |-> << >>]

\* Invoices saved with Save Invoice Header, status received: the first, the
\* third, the fourth and the fifth for the first purchase order, the second
\* for the second.
RecordedInvoices ==
  << [po_id |-> 1, status |-> "received"],
     [po_id |-> 2, status |-> "received"],
     [po_id |-> 1, status |-> "received"],
     [po_id |-> 1, status |-> "received"],
     [po_id |-> 1, status |-> "received"] >>

\* Their lines, added with Add Invoice Line. Invoices 1 and 2 repeat the
\* totals of their orders; invoice 3 has the order's amount in half the
\* quantity; invoice 4 has the order's quantity at a higher price; invoice 5
\* has the order's quantity in two lines whose amounts add up to half a cent
\* more than the order's.
RecordedInvoiceLines ==
  << [invoice_id |-> 1, qty |-> 10 * Unit, unit_price |-> 250],
     [invoice_id |-> 2, qty |-> 20 * Unit, unit_price |-> 250],
     [invoice_id |-> 3, qty |-> 5 * Unit, unit_price |-> 500],
     [invoice_id |-> 4, qty |-> 10 * Unit, unit_price |-> 251],
     [invoice_id |-> 5, qty |-> 9990 * Milli, unit_price |-> 250],
     [invoice_id |-> 5, qty |-> 10 * Milli, unit_price |-> 300] >>

\* The purchase orders have been created and no goods have been received.
InitDocuments ==
  [EmptyDocuments EXCEPT !.purchase_orders = [po \in PurchaseOrders |-> "created"]]

\* Variant of the loop over the lines: it stops after the first line.
GrnFirstLineLegs(lines, wh, grn_id) ==
  IF lines = << >> THEN << >>
  ELSE << Leg("ITEM", wh, NULL, Head(lines).item, NULL, 0, "GRN", "GRN", grn_id),
          Leg("IN", wh, NULL, Head(lines).item, NULL, Head(lines).qty,
              "GRN", "GRN", grn_id) >>

RECURSIVE GrnLineLegs(_, _, _)
\* Record Goods Receipt, `for line in po_lines`: the item row of the line,
\* then inventory_in(conn, wh_id, item_id, qty, "GRN", grn_id).
GrnLineLegs(lines, wh, grn_id) ==
  IF lines = << >> THEN << >>
  ELSE << Leg("ITEM", wh, NULL, Head(lines).item, NULL, 0, "GRN", "GRN", grn_id),
          Leg("IN", wh, NULL, Head(lines).item, NULL, Head(lines).qty,
              "GRN", "GRN", grn_id) >>
       \o GrnLineLegs(Tail(lines), wh, grn_id)

RECURSIVE ShipLegs(_, _, _)
\* Ship: inventory_out(conn, wh_id, item_id, qty, "DO", do_cur) for each line
\* of the delivery, then the update of its status.
ShipLegs(lines, wh, do_cur) ==
  IF lines = << >>
    THEN << Leg("SHIPPED", wh, NULL, 0, NULL, 0, "DELIVERY", "DO", do_cur) >>
  ELSE IF Head(lines).delivery_id = do_cur
    THEN << Leg("OUT", wh, NULL, Head(lines).item_id, NULL, Head(lines).qty,
                "DELIVERY", "DO", do_cur) >>
         \o ShipLegs(Tail(lines), wh, do_cur)
  ELSE ShipLegs(Tail(lines), wh, do_cur)

NoRequest == Request("none", 0, 0, 0, 0, 0)

LegsOf(r) ==
  CASE r.kind = "IN" ->
         << Leg("IN", r.wh, NULL, r.item, r.bin, r.qty, "GRN", "GRN", 1) >>
    [] r.kind = "OUT" ->
         << Leg("OUT", r.wh, NULL, r.item, r.bin, r.qty, "DELIVERY", "DO", 1) >>
    [] r.kind = "TRANSFER" -> TransferLegs(r.wh, r.whTo, r.item, r.qty)
    [] r.kind = "GRN" ->
         << Leg("GRN", r.wh, NULL, 0, NULL, 0, "GRN", "PO", r.doc) >>
    [] r.kind = "SHIP" -> ShipLegs(documents.delivery_items, r.wh, r.doc)
    [] r.kind = "REQ" ->
         << Leg("REQ", NULL, NULL, 0, NULL, 0, "CREATE", "REQ", 0) >>

\* The calls the handlers make: receipts into the receiving warehouse, issues
\* from any warehouse, transfers along the routes (one of them onto itself).
Requests ==
  {Request("IN", w, NULL, i, NULL, q) :
     w \in ReceivingWarehouses, i \in Items, q \in InQuantities}
  \cup {Request("OUT", w, NULL, i, NULL, q) :
     w \in Warehouses, i \in Items, q \in OutQuantities}
  \cup {Request("TRANSFER", r[1], r[2], i, NULL, q) :
     r \in TransferRoutes, i \in Items, q \in TransferQuantities}

\* ------------------------------------------------------------ transactions
\* What connection p reads: its own uncommitted writes once it holds the
\* write lock, the committed tables before.
View(p) ==
  IF lock = p THEN [inv |-> txInv, mov |-> txMov, doc |-> txDoc]
              ELSE [inv |-> inventory, mov |-> stock_movements, doc |-> documents]

CanWrite(p) == lock \in {NoLock, p}

\* Variant of the failure path: the exception is caught inside the `with`
\* block, so the block ends normally and the pending writes are committed.
RaiseCommits(p, err) ==
  /\ pc' = [pc EXCEPT ![p] = "idle"]
  /\ result' = [result EXCEPT ![p] = err]
  /\ legs' = [legs EXCEPT ![p] = << >>]
  /\ lock' = IF lock = p THEN NoLock ELSE lock
  /\ txInv' = IF lock = p THEN << >> ELSE txInv
  /\ txMov' = IF lock = p THEN << >> ELSE txMov
  /\ txDoc' = IF lock = p THEN EmptyDocuments ELSE txDoc
  /\ inventory' = IF lock = p THEN txInv ELSE inventory
  /\ stock_movements' = IF lock = p THEN txMov ELSE stock_movements
  /\ documents' = IF lock = p THEN txDoc ELSE documents

\* An exception leaves `with engine.begin() as conn:`: the transaction is
\* rolled back and the handler ends.
Raise(p, err) ==
  /\ pc' = [pc EXCEPT ![p] = "idle"]
  /\ result' = [result EXCEPT ![p] = err]
  /\ legs' = [legs EXCEPT ![p] = << >>]
  /\ lock' = IF lock = p THEN NoLock ELSE lock
  /\ txInv' = IF lock = p THEN << >> ELSE txInv
  /\ txMov' = IF lock = p THEN << >> ELSE txMov
  /\ txDoc' = IF lock = p THEN EmptyDocuments ELSE txDoc
  /\ UNCHANGED <<inventory, stock_movements, documents>>

NextPc(rest) ==
  IF rest = << >> THEN "commit"
  ELSE CASE Head(rest).op = "MARK" -> "mark"
         [] Head(rest).op = "GRN" -> "receipt"
         [] Head(rest).op = "ITEM" -> "item"
         [] Head(rest).op = "SHIPPED" -> "shipped"
         [] Head(rest).op = "REQ" -> "requisition"
         [] Head(rest).op = "LOG" -> "commit"
         [] OTHER -> "select"

Init ==
  /\ inventory = << >>
  /\ stock_movements = << >>
  /\ clock = 0
  /\ lock = NoLock
  /\ txInv = << >>
  /\ txMov = << >>
  /\ pc = [p \in Procs |-> "idle"]
  /\ req = [p \in Procs |-> NoRequest]
  /\ legs = [p \in Procs |-> << >>]
  /\ row = [p \in Procs |-> [id |-> 0, qty |-> 0]]
  /\ result = [p \in Procs |-> "none"]
  /\ overlap = [p \in Procs |-> {}]
  /\ ops = 0
  /\ documents = InitDocuments
  /\ txDoc = EmptyDocuments
  /\ audit_logs = << >>
  /\ report = 0
  /\ current_do = [p \in Procs |-> NULL]

\* A handler opens its transaction and calls the engine with request r.
Start(p, r) ==
  /\ pc[p] = "idle"
  /\ pc' = [pc EXCEPT ![p] = NextPc(LegsOf(r))]
  /\ req' = [req EXCEPT ![p] = r]
  /\ legs' = [legs EXCEPT ![p] = LegsOf(r)]
  /\ row' = [row EXCEPT ![p] = [id |-> 0, qty |-> 0]]
  /\ result' = [result EXCEPT ![p] = "running"]
  /\ overlap' = [q \in Procs |->
                   IF q = p THEN {o \in Procs \ {p} : pc[o] # "idle"}
                   ELSE IF pc[q] # "idle" THEN overlap[q] \cup {p}
                   ELSE overlap[q] \ {p}]
  /\ ops' = ops + 1
  /\ UNCHANGED <<inventory, stock_movements, clock, lock, txInv, txMov,
                 documents, txDoc, audit_logs, report, current_do>>

Begin(p) ==
  /\ ops < MaxOps
  /\ \E r \in Requests : Start(p, r)

\* get_or_create_inv, first SELECT.
Select(p) ==
  /\ pc[p] = "select"
  /\ LET leg == Head(legs[p])
         v == View(p)
         i == SelectInv(v.inv, leg.wh, leg.item, leg.bin)
     IN  IF i # 0
         THEN /\ row' = [row EXCEPT ![p] = [id |-> i, qty |-> v.inv[i].qty]]
              /\ pc' = [pc EXCEPT ![p] = "apply"]
         ELSE /\ row' = row
              /\ pc' = [pc EXCEPT ![p] = "create"]
  /\ UNCHANGED <<inventory, stock_movements, clock, lock, txInv, txMov,
                 req, legs, result, overlap, ops,
                 documents, txDoc, audit_logs, report, current_do>>

\* get_or_create_inv, INSERT of the missing row and the SELECT after it.
Create(p) ==
  /\ pc[p] = "create"
  /\ CanWrite(p)
  /\ LET leg == Head(legs[p])
         v == View(p)
         inv2 == InsertInv(v.inv, leg.wh, leg.item, leg.bin)
         i == SelectInv(inv2, leg.wh, leg.item, leg.bin)
     IN  /\ txInv' = inv2
         /\ txMov' = v.mov
         /\ txDoc' = v.doc
         /\ row' = [row EXCEPT ![p] = [id |-> i, qty |-> inv2[i].qty]]
  /\ lock' = p
  /\ pc' = [pc EXCEPT ![p] = "apply"]
  /\ UNCHANGED <<inventory, stock_movements, clock, req, legs, result,
                 overlap, ops, documents, audit_logs, report, current_do>>

\* The UPDATE of the row and the INSERT of the movement record, given the
\* new quantity; the INSERT is rejected when its movement_no is taken.
WriteLeg(p, new_qty, prefix, type) ==
  LET leg == Head(legs[p])
      v == View(p)
      no == now_ts_id(prefix)
  IN  /\ CanWrite(p)
      /\ IF Clashes(v.mov, no)
         THEN Raise(p, "IntegrityError")
         ELSE /\ txInv' = UpdateQty(v.inv, row[p].id, new_qty)
              /\ txDoc' = v.doc
              /\ txMov' = AppendMovement(v.mov, Movement(no, type, leg.wh, NULL, leg.item,
                                   leg.bin, leg.qty, leg.reason, leg.ref_entity,
                                   leg.ref_id))
              /\ lock' = p
              /\ legs' = [legs EXCEPT ![p] = Tail(legs[p])]
              /\ pc' = [pc EXCEPT ![p] = NextPc(Tail(legs[p]))]
              /\ UNCHANGED <<inventory, stock_movements, documents, result>>
      /\ UNCHANGED <<clock, req, row, overlap, ops, audit_logs, report, current_do>>

\* inventory_in after the lookup.
InventoryIn(p) ==
  /\ pc[p] = "apply"
  /\ Head(legs[p]).op = "IN"
  /\ WriteLeg(p, row[p].qty + Head(legs[p]).qty, "MIN", "IN")

\* inventory_out after the lookup, when the guard lets it through.
InventoryOut(p) ==
  /\ pc[p] = "apply"
  /\ Head(legs[p]).op = "OUT"
  /\ ~BelowEps(row[p].qty, Head(legs[p]).qty)
  /\ WriteLeg(p, row[p].qty - Head(legs[p]).qty, "MOUT", "OUT")

\* inventory_out: raise ValueError("Insufficient stock ...").
InsufficientStock(p) ==
  /\ pc[p] = "apply"
  /\ Head(legs[p]).op = "OUT"
  /\ BelowEps(row[p].qty, Head(legs[p]).qty)
  /\ Raise(p, "InsufficientStock")
  /\ UNCHANGED <<clock, req, row, overlap, ops, audit_logs, report, current_do>>

\* transfer_stock: the third, TRANSFER movement record.
TransferMarker(p) ==
  /\ pc[p] = "mark"
  /\ CanWrite(p)
  /\ LET leg == Head(legs[p])
         v == View(p)
         no == now_ts_id("MTR")
     IN  IF Clashes(v.mov, no)
         THEN Raise(p, "IntegrityError")
         ELSE /\ txInv' = v.inv
              /\ txDoc' = v.doc
              /\ txMov' = AppendMovement(v.mov, Movement(no, "TRANSFER", leg.wh, leg.whTo,
                                   leg.item, NULL, leg.qty, leg.reason,
                                   leg.ref_entity, leg.ref_id))
              /\ lock' = p
              /\ legs' = [legs EXCEPT ![p] = Tail(legs[p])]
              /\ pc' = [pc EXCEPT ![p] = NextPc(Tail(legs[p]))]
              /\ UNCHANGED <<inventory, stock_movements, documents, result>>
  /\ UNCHANGED <<clock, req, row, overlap, ops, audit_logs, report, current_do>>

\* Leaving `with engine.begin()` normally: COMMIT.
Commit(p) ==
  /\ pc[p] = "commit"
  /\ lock = p
  /\ inventory' = txInv
  /\ stock_movements' = txMov
  /\ lock' = NoLock
  /\ documents' = txDoc
  /\ txInv' = << >>
  /\ txMov' = << >>
  /\ txDoc' = EmptyDocuments
  /\ pc' = [pc EXCEPT ![p] = IF legs[p] = << >> THEN "idle" ELSE "log"]
  /\ result' = [result EXCEPT ![p] = IF legs[p] = << >> THEN "ok" ELSE @]
  /\ UNCHANGED <<clock, req, legs, row, overlap, ops, audit_logs, report,
                 current_do>>

\* The wall clock read by now_ts_id reaches the next second.
Tick ==
  /\ clock < MaxClock
  /\ clock' = clock + 1
  /\ UNCHANGED <<inventory, stock_movements, lock, txInv, txMov,
                 pc, req, legs, row, result, overlap, ops,
                 documents, txDoc, audit_logs, report, current_do>>

Step(p) ==
  \/ Select(p)
  \/ Create(p)
  \/ InventoryIn(p)
  \/ InventoryOut(p)
  \/ InsufficientStock(p)
  \/ TransferMarker(p)
  \/ Commit(p)

Next ==
  \/ \E p \in Procs : Begin(p)
  \/ \E p \in Procs : Step(p)
  \/ Tick

Spec == Init /\ [][Next]_vars

\* ------------------------------------------------- the scenario of section 8
\* IN(WH1, ItemA, 50), OUT(WH1, ItemA, 20), OUT(WH1, ItemA, 30.000001),
\* TRANSFER(WH1 -> WH2, ItemA, 30), each issued by some handler once the
\* previous one has returned.
Scenario ==
  << Request("IN", 1, NULL, 1, NULL, 50 * Unit),
     Request("OUT", 1, NULL, 1, NULL, 20 * Unit),
     Request("OUT", 1, NULL, 1, NULL, 30 * Unit + 1),
     Request("TRANSFER", 1, 2, 1, NULL, 30 * Unit) >>

BeginScenario(p) ==
  /\ ops < Len(Scenario)
  /\ \A o \in Procs : pc[o] = "idle"
  /\ Start(p, Scenario[ops + 1])

NextScenario ==
  \/ \E p \in Procs : BeginScenario(p)
  \/ \E p \in Procs : Step(p)
  \/ Tick

SpecScenario == Init /\ [][NextScenario]_vars

\* ------------------------------------------- handlers around the engine
\* Record Goods Receipt: the goods_receipts row under grn_no = now_ts_id("GRN")
\* and the purchase order set to delivered; the lines follow.
Receipt(p) ==
  /\ pc[p] = "receipt"
  /\ CanWrite(p)
  /\ LET leg == Head(legs[p])
         v == View(p)
         no == now_ts_id("GRN")
         grn_id == Len(v.doc.goods_receipts) + 1
     IN  IF \E g \in 1..Len(v.doc.goods_receipts) : v.doc.goods_receipts[g].grn_no = no
         THEN Raise(p, "IntegrityError")
         ELSE /\ txDoc' = [v.doc EXCEPT
                             !.goods_receipts = Append(@, [grn_no |-> no, po_id |-> leg.ref_id]),
                             !.purchase_orders[leg.ref_id] = "delivered"]
              /\ txInv' = v.inv
              /\ txMov' = v.mov
              /\ lock' = p
              /\ legs' = [legs EXCEPT ![p] = GrnLineLegs(po_items(leg.ref_id), leg.wh, grn_id)]
              /\ pc' = [pc EXCEPT ![p] = NextPc(GrnLineLegs(po_items(leg.ref_id), leg.wh, grn_id))]
              /\ UNCHANGED <<inventory, stock_movements, documents, result>>
  /\ UNCHANGED <<clock, req, row, overlap, ops, audit_logs, report, current_do>>

\* Record Goods Receipt, per line: the items row of the line's item_desc is
\* inserted, or its last_price updated.
ItemRow(p) ==
  /\ pc[p] = "item"
  /\ CanWrite(p)
  /\ LET leg == Head(legs[p])
         v == View(p)
     IN  /\ txDoc' = [v.doc EXCEPT !.items = @ \cup {leg.item}]
         /\ txInv' = v.inv
         /\ txMov' = v.mov
  /\ lock' = p
  /\ legs' = [legs EXCEPT ![p] = Tail(legs[p])]
  /\ pc' = [pc EXCEPT ![p] = NextPc(Tail(legs[p]))]
  /\ UNCHANGED <<inventory, stock_movements, documents, result, clock, req, row,
                 overlap, ops, audit_logs, report, current_do>>

\* Ship, after the last inventory_out: deliveries.update(status="shipped").
Shipped(p) ==
  /\ pc[p] = "shipped"
  /\ CanWrite(p)
  /\ LET leg == Head(legs[p])
         v == View(p)
     IN  /\ txDoc' = [v.doc EXCEPT !.deliveries[leg.ref_id].status = "shipped"]
         /\ txInv' = v.inv
         /\ txMov' = v.mov
  /\ lock' = p
  /\ legs' = [legs EXCEPT ![p] = Tail(legs[p])]
  /\ pc' = [pc EXCEPT ![p] = NextPc(Tail(legs[p]))]
  /\ UNCHANGED <<inventory, stock_movements, documents, result, clock, req, row,
                 overlap, ops, audit_logs, report, current_do>>

\* Create Requisition: the requisitions row under req_no = now_ts_id("REQ");
\* the call of log() follows the commit.
Requisition(p) ==
  /\ pc[p] = "requisition"
  /\ CanWrite(p)
  /\ LET v == View(p)
         no == now_ts_id("REQ")
         rid == Len(v.doc.requisitions) + 1
     IN  IF \E k \in 1..Len(v.doc.requisitions) : v.doc.requisitions[k] = no
         THEN Raise(p, "IntegrityError")
         ELSE /\ txDoc' = [v.doc EXCEPT !.requisitions = Append(@, no)]
              /\ txInv' = v.inv
              /\ txMov' = v.mov
              /\ lock' = p
              /\ legs' = [legs EXCEPT ![p] =
                            << Leg("LOG", NULL, NULL, 0, NULL, 0, "CREATE", "REQ", rid) >>]
              /\ pc' = [pc EXCEPT ![p] = "commit"]
              /\ UNCHANGED <<inventory, stock_movements, documents, result>>
  /\ UNCHANGED <<clock, req, row, overlap, ops, audit_logs, report, current_do>>

\* The row log() inserts into audit_logs.
AuditEntry(actor, action, entity_type, entity_id) ==
  [actor |-> actor, action |-> action, entity_type |-> entity_type,
   entity_id |-> entity_id]

\* log(): one audit_logs row in a transaction of its own.
Log(p) ==
  /\ pc[p] = "log"
  /\ lock = NoLock
  /\ LET leg == Head(legs[p])
     IN  audit_logs' = Append(audit_logs,
                              AuditEntry(p, leg.reason, leg.ref_entity, leg.ref_id))
  /\ legs' = [legs EXCEPT ![p] = << >>]
  /\ pc' = [pc EXCEPT ![p] = "idle"]
  /\ result' = [result EXCEPT ![p] = "ok"]
  /\ UNCHANGED <<inventory, stock_movements, clock, lock, txInv, txMov, req, row,
                 overlap, ops, documents, txDoc, report, current_do>>

\* Create Delivery Order: one deliveries row under do_no = now_ts_id("DO"),
\* status created; the session keeps its id as current_do. An insert under a
\* do_no already taken is rejected and changes nothing.
CreateDelivery(p) ==
  /\ pc[p] = "idle"
  /\ lock = NoLock
  /\ ops < MaxCalls
  /\ ops' = ops + 1
  /\ \A d \in 1..Len(documents.deliveries) :
       documents.deliveries[d].do_no # now_ts_id("DO")
  /\ \E w \in ShippingWarehouses :
       documents' = [documents EXCEPT !.deliveries =
                       Append(@, [do_no |-> now_ts_id("DO"), warehouse_id |-> w,
                                  status |-> "created"])]
  /\ current_do' = [current_do EXCEPT ![p] = Len(documents.deliveries) + 1]
  /\ UNCHANGED <<inventory, stock_movements, clock, lock, txInv, txMov, pc, req,
                 legs, row, result, overlap, txDoc, audit_logs, report>>

RECURSIVE TotalValue(_, _)
\* The total of the valuation query over the first n inventory rows: the
\* quantities of the lines whose item is in the items table (the join), each
\* unit valued at one.
TotalValue(inv, n) ==
  IF n = 0 THEN 0
  ELSE TotalValue(inv, n - 1)
       + (IF inv[n].item_id \in documents.items THEN inv[n].qty ELSE 0)

\* Variant of the reports page: showing the page is recorded with log().
ReportLogged ==
  /\ report' = TotalValue(inventory, Len(inventory))
  /\ audit_logs' = Append(audit_logs, AuditEntry(0, "VIEW", "REPORT", 0))
  /\ UNCHANGED <<inventory, stock_movements, clock, lock, txInv, txMov, pc, req,
                 legs, row, result, overlap, ops, documents, txDoc,
                 current_do>>

\* page_reports: the queries run and the page shows the inventory valuation.
Report ==
  /\ report' = TotalValue(inventory, Len(inventory))
  /\ UNCHANGED <<inventory, stock_movements, clock, lock, txInv, txMov, pc, req,
                 legs, row, result, overlap, ops, documents, txDoc, audit_logs,
                 current_do>>

\* What a session can ask for: a goods receipt of a purchase order, the
\* shipment of its current delivery, a transfer, a new requisition.
WorkflowRequests(p) ==
  {DocRequest("GRN", w, po) : w \in ReceivingWarehouses, po \in PurchaseOrders}
  \cup {DocRequest("SHIP", w, current_do[p]) :
          w \in IF current_do[p] = NULL THEN {} ELSE ShippingWarehouses}
  \cup {Request("TRANSFER", 1, 2, i, NULL, 8 * Unit) : i \in Items}
  \cup {DocRequest("REQ", NULL, NULL)}

BeginWorkflow(p) == ops < MaxCalls /\ \E r \in WorkflowRequests(p) : Start(p, r)

WorkflowStep(p) ==
  \/ Receipt(p)
  \/ ItemRow(p)
  \/ Shipped(p)
  \/ Requisition(p)
  \/ Log(p)
  \/ CreateDelivery(p)

NextWorkflow ==
  \/ \E p \in Procs : BeginWorkflow(p)
  \/ \E p \in Procs : Step(p)
  \/ \E p \in Procs : WorkflowStep(p)
  \/ Report
  \/ Tick

\* The tables after a first working session: the goods receipt of the first
\* purchase order (10 of item 1) has been recorded into warehouse 1, session 1
\* has created a delivery order of two lines of 8 of the item and, a second
\* later, session 2 one of one line of 4.
InitWorkflow ==
  /\ inventory = << [warehouse_id |-> 1, item_id |-> 1, bin_id |-> NULL,
                     qty |-> 10 * Unit] >>
  /\ stock_movements =
       << Movement(<<"MIN", 0 - 1>>, "IN", 1, NULL, 1, NULL, 10 * Unit,
                   "GRN", "GRN", 1) >>
  /\ documents =
       [InitDocuments EXCEPT
          !.goods_receipts = << [grn_no |-> <<"GRN", 0 - 1>>, po_id |-> 1] >>,
          !.purchase_orders[1] = "delivered",
          !.items = {1},
          !.deliveries = << [do_no |-> <<"DO", 0 - 2>>, warehouse_id |-> 1,
                             status |-> "created"],
                            [do_no |-> <<"DO", 0 - 1>>, warehouse_id |-> 1,
                             status |-> "created"] >>,
          !.delivery_items = << [delivery_id |-> 1, item_id |-> 1, qty |-> 8 * Unit],
                                [delivery_id |-> 1, item_id |-> 1, qty |-> 8 * Unit],
                                [delivery_id |-> 2, item_id |-> 1, qty |-> 4 * Unit] >>,
          !.invoices = RecordedInvoices,
          !.invoice_items = RecordedInvoiceLines]
  /\ current_do = [p \in Procs |-> p]
  /\ clock = 0
  /\ lock = NoLock
  /\ txInv = << >>
  /\ txMov = << >>
  /\ txDoc = EmptyDocuments
  /\ pc = [p \in Procs |-> "idle"]
  /\ req = [p \in Procs |-> NoRequest]
  /\ legs = [p \in Procs |-> << >>]
  /\ row = [p \in Procs |-> [id |-> 0, qty |-> 0]]
  /\ result = [p \in Procs |-> "none"]
  /\ overlap = [p \in Procs |-> {}]
  /\ ops = 0
  /\ audit_logs = << >>
  /\ report = 0

SpecWorkflow == InitWorkflow /\ [][NextWorkflow]_vars

\* ------------------------------------------- transfers on a stocked ledger
FrameItems == {1, 2}

\* A ledger with two items: 10 of item 1 and 12 of item 2 have been received
\* into warehouse 1 and 7 of item 2 transferred to warehouse 2, each in a
\* second of its own before the sessions start.
InitFrame ==
  /\ inventory = << [warehouse_id |-> 1, item_id |-> 1, bin_id |-> NULL, qty |-> 10 * Unit],
                    [warehouse_id |-> 1, item_id |-> 2, bin_id |-> NULL, qty |-> 5 * Unit],
                    [warehouse_id |-> 2, item_id |-> 2, bin_id |-> NULL, qty |-> 7 * Unit] >>
  /\ stock_movements =
       << Movement(<<"MIN", 0 - 3>>, "IN", 1, NULL, 1, NULL, 10 * Unit, "GRN", "GRN", 1),
          Movement(<<"MIN", 0 - 2>>, "IN", 1, NULL, 2, NULL, 12 * Unit, "GRN", "GRN", 2),
          Movement(<<"MOUT", 0 - 1>>, "OUT", 1, NULL, 2, NULL, 7 * Unit,
                   "DELIVERY", "TRANSFER", 0),
          Movement(<<"MIN", 0 - 1>>, "IN", 2, NULL, 2, NULL, 7 * Unit,
                   "GRN", "TRANSFER", 0),
          Movement(<<"MTR", 0 - 1>>, "TRANSFER", 1, 2, 2, NULL, 7 * Unit,
                   "TRANSFER", "TRANSFER", 0) >>
  /\ documents = [InitDocuments EXCEPT !.items = FrameItems]
  /\ current_do = [p \in Procs |-> NULL]
  /\ clock = 0
  /\ lock = NoLock
  /\ txInv = << >>
  /\ txMov = << >>
  /\ txDoc = EmptyDocuments
  /\ pc = [p \in Procs |-> "idle"]
  /\ req = [p \in Procs |-> NoRequest]
  /\ legs = [p \in Procs |-> << >>]
  /\ row = [p \in Procs |-> [id |-> 0, qty |-> 0]]
  /\ result = [p \in Procs |-> "none"]
  /\ overlap = [p \in Procs |-> {}]
  /\ ops = 0
  /\ audit_logs = << >>
  /\ report = 0

\* The Transfer button of the inventory page, for either item on every route.
BeginTransfer(p) ==
  /\ ops < MaxOps
  /\ \E r \in TransferRoutes, i \in FrameItems :
       Start(p, Request("TRANSFER", r[1], r[2], i, NULL, 8 * Unit))

NextFrame ==
  \/ \E p \in Procs : BeginTransfer(p)
  \/ \E p \in Procs : Step(p)
  \/ Tick

SpecFrame == InitFrame /\ [][NextFrame]_vars

\* ---------------------------------------------------------------- invoices
\* The invoice ids a user types into "Invoice ID": the recorded invoices and
\* one id no invoice has.
InvoiceInputs == 1..(Len(RecordedInvoices) + 1)

RECURSIVE SumQty(_)
\* sum([float(r["qty"]) for r in lines])
SumQty(lines) ==
  IF lines = << >> THEN 0 ELSE Head(lines).qty + SumQty(Tail(lines))

\* A quantity of a Numeric(12,2) column, in hundredths of a unit.
Hundredths(qty) == qty \div (Unit \div 100)

RECURSIVE SumAmount(_)
\* sum([float(r["qty"])*float(r["unit_price"]) for r in lines]), in
\* hundredths of a cent.
SumAmount(lines) ==
  IF lines = << >> THEN 0
  ELSE Hundredths(Head(lines).qty) * Head(lines).unit_price
       + SumAmount(Tail(lines))

Abs(x) == IF x < 0 THEN 0 - x ELSE x

\* select(invoice_items).where(invoice_items.c.invoice_id == inv_id_chk)
InvoiceLines(doc, inv_id) ==
  SelectSeq(doc.invoice_items, LAMBDA l : l.invoice_id = inv_id)

\* select(goods_receipts).where(goods_receipts.c.po_id == po_id)
GrnRows(doc, po_id) ==
  SelectSeq(doc.goods_receipts, LAMBDA g : g.po_id = po_id)

\* The verdict of Run 3-way match on the tables read in its first
\* transaction: abs(inv_qty - po_qty) < 1e-6, abs(inv_total - po_total) < 1e-2
\* and at least one goods receipt of the order.
ThreeWayMatch(doc, inv_id) ==
  LET po_id == doc.invoices[inv_id].po_id
      po_lines == po_items(po_id)
      inv_lines == InvoiceLines(doc, inv_id)
  IN  /\ Abs(SumQty(inv_lines) - SumQty(po_lines)) < 1
      /\ Abs(SumAmount(inv_lines) - SumAmount(po_lines)) < 100
      /\ GrnRows(doc, po_id) # << >>

\* Mark as Paid, one transaction: the status of the invoice with the typed id
\* becomes paid, whatever it was, and a payments row is inserted; with an id
\* no invoice has the update changes no row and the payment is still stored.
MarkPaid(p, inv_id) ==
  /\ pc[p] = "idle"
  /\ lock = NoLock
  /\ ops < MaxCalls
  /\ ops' = ops + 1
  /\ documents' =
       [documents EXCEPT
          !.invoices = [i \in 1..Len(@) |->
                          IF i = inv_id THEN [@[i] EXCEPT !.status = "paid"]
                          ELSE @[i]],
          !.payments = Append(@, [invoice_id |-> inv_id])]
  /\ UNCHANGED <<inventory, stock_movements, clock, lock, txInv, txMov, pc, req,
                 legs, row, result, overlap, txDoc, audit_logs, report,
                 current_do>>

\* Run 3-way match, first transaction and verdict: the invoice, the lines of
\* its order, the receipts of the order and the invoice lines are read. With
\* no such invoice or a failed check the handler ends; otherwise the second
\* transaction is still to come.
RunMatch(p, inv_id) ==
  /\ pc[p] = "idle"
  /\ ops < MaxCalls
  /\ ops' = ops + 1
  /\ req' = [req EXCEPT ![p] = DocRequest("MATCH", NULL, inv_id)]
  /\ IF inv_id \notin 1..Len(documents.invoices)
       THEN /\ result' = [result EXCEPT ![p] = "Invoice not found"]
            /\ pc' = pc
       ELSE IF ThreeWayMatch(documents, inv_id)
       THEN /\ result' = [result EXCEPT ![p] = "running"]
            /\ pc' = [pc EXCEPT ![p] = "matched"]
       ELSE /\ result' = [result EXCEPT ![p] = "Three-way match failed"]
            /\ pc' = pc
  /\ UNCHANGED <<inventory, stock_movements, clock, lock, txInv, txMov, legs,
                 row, overlap, documents, txDoc, audit_logs, report, current_do>>

\* Run 3-way match, second transaction:
\* invoices.update().where(id == inv_id_chk).values(status="matched").
MarkMatched(p) ==
  /\ pc[p] = "matched"
  /\ lock = NoLock
  /\ documents' = [documents EXCEPT !.invoices[req[p].doc].status = "matched"]
  /\ pc' = [pc EXCEPT ![p] = "idle"]
  /\ result' = [result EXCEPT ![p] = "ok"]
  /\ UNCHANGED <<inventory, stock_movements, clock, lock, txInv, txMov, req,
                 legs, row, overlap, ops, txDoc, audit_logs, report, current_do>>

NextInvoices ==
  \/ \E p \in Procs, inv_id \in InvoiceInputs : MarkPaid(p, inv_id)
  \/ \E p \in Procs, inv_id \in InvoiceInputs : RunMatch(p, inv_id)
  \/ \E p \in Procs : MarkMatched(p)

\* The invoices page over the state in which the first order has been
\* received and the invoices have been recorded.
SpecInvoices == InitWorkflow /\ [][NextInvoices]_vars

\* ------------------------------------------------------------- properties
Finished(p) == pc[p] = "idle" /\ result[p] \notin {"none", "running"}

\* Quantity of the StockLine of a key in a table, 0 when there is none.
QtyOf(inv, wh, item, bin) ==
  LET i == SelectInv(inv, wh, item, bin)
  IN  IF i = 0 THEN 0 ELSE inv[i].qty

\* Replay of the first n movement records for one key: IN adds, OUT subtracts.
RECURSIVE SignedSum(_, _, _, _, _)
SignedSum(mov, n, wh, item, bin) ==
  IF n = 0 THEN 0
  ELSE SignedSum(mov, n - 1, wh, item, bin)
       + (IF /\ mov[n].warehouse_id = wh
             /\ mov[n].item_id = item
             /\ mov[n].bin_id = bin
          THEN (CASE mov[n].movement_type = "IN" -> mov[n].qty
                  [] mov[n].movement_type = "OUT" -> 0 - mov[n].qty
                  [] OTHER -> 0)
          ELSE 0)

SameKey(r1, r2) ==
  /\ r1.warehouse_id = r2.warehouse_id
  /\ r1.item_id = r2.item_id
  /\ r1.bin_id = r2.bin_id

\* C1: in every committed state the quantity of the StockLine of each key
\* equals the signed sum of the movement records of that key (IN adds, OUT
\* subtracts).
ReplayEquivalence ==
  \A w \in Warehouses, i \in Items :
    QtyOf(inventory, w, i, NULL)
      = SignedSum(stock_movements, Len(stock_movements), w, i, NULL)

\* C2: no StockLine ever holds a quantity below -1e-6.
NonNegativity ==
  \A k \in 1..Len(inventory) : inventory[k].qty >= 0 - 1

\* C3: two overlapping OUT requests of 8 against the same StockLine, both
\* having found it at 10, end with exactly one success and one
\* InsufficientStock failure.
ConcurrentOutExclusive ==
  \A p \in Procs, q \in Procs :
    ( /\ p # q
      /\ Finished(p) /\ Finished(q)
      /\ q \in overlap[p]
      /\ req[p].kind = "OUT" /\ req[q].kind = "OUT"
      /\ req[p].wh = req[q].wh /\ req[p].item = req[q].item
      /\ req[p].bin = req[q].bin
      /\ req[p].qty = 8 * Unit /\ req[q].qty = 8 * Unit
      /\ row[p].qty = 10 * Unit /\ row[q].qty = 10 * Unit )
    => {result[p], result[q]} = {"ok", "InsufficientStock"}

\* C4: the step in which an OUT request fails with InsufficientStock changes
\* neither the committed inventory rows (their number and quantities) nor the
\* committed movement records, and leaves no pending write of the request.
OutFailureAtomic ==
  [][\A p \in Procs :
       ( /\ req[p].kind = "OUT"
         /\ pc[p] # "idle"
         /\ result'[p] = "InsufficientStock" )
       => /\ inventory' = inventory
          /\ stock_movements' = stock_movements
          /\ lock' # p]_vars

\* C4 witness: an OUT failed for a key that had no StockLine; the row the
\* lookup inserted is gone and the tables are empty as before.
OutFailedOnMissingLine ==
  \E p \in Procs :
    /\ Finished(p)
    /\ req[p].kind = "OUT"
    /\ result[p] = "InsufficientStock"
    /\ row[p].id # 0
    /\ SelectInv(inventory, req[p].wh, req[p].item, req[p].bin) = 0

\* C5: the commit of a TRANSFER(A -> B, X, Q) lowers StockLine(A, X) by
\* exactly Q, raises StockLine(B, X) by exactly Q and appends exactly three
\* movement records: OUT, IN and the TRANSFER marker.
TransferConservation ==
  [][\A p \in Procs :
       ( /\ req[p].kind = "TRANSFER"
         /\ pc[p] = "commit"
         /\ pc'[p] = "idle" )
       => LET n == Len(stock_movements)
          IN  /\ QtyOf(inventory', req[p].wh, req[p].item, NULL)
                   = QtyOf(inventory, req[p].wh, req[p].item, NULL) - req[p].qty
              /\ QtyOf(inventory', req[p].whTo, req[p].item, NULL)
                   = QtyOf(inventory, req[p].whTo, req[p].item, NULL) + req[p].qty
              /\ Len(stock_movements') = n + 3
              /\ stock_movements'[n + 1].movement_type = "OUT"
              /\ stock_movements'[n + 2].movement_type = "IN"
              /\ stock_movements'[n + 3].movement_type = "TRANSFER"]_vars

\* C6: the step in which the OUT leg of a TRANSFER fails for insufficient
\* stock is taken before the IN leg, changes no committed StockLine, writes
\* no movement record and leaves no pending write of the request.
TransferFailureAtomic ==
  [][\A p \in Procs :
       ( /\ req[p].kind = "TRANSFER"
         /\ pc[p] # "idle"
         /\ result'[p] = "InsufficientStock" )
       => /\ Head(legs[p]).op = "OUT"
          /\ Len(legs[p]) = 3
          /\ inventory' = inventory
          /\ stock_movements' = stock_movements
          /\ lock' # p]_vars

\* C6 witness: a TRANSFER failed at its OUT leg on a source without a
\* StockLine; neither warehouse has a row or a record from it.
TransferFailedOnMissingLine ==
  \E p \in Procs :
    /\ Finished(p)
    /\ req[p].kind = "TRANSFER"
    /\ result[p] = "InsufficientStock"
    /\ row[p].id # 0
    /\ inventory = << >>
    /\ stock_movements = << >>

\* C7: each step of the scenario ends as specified: 50 after the IN, 30
\* after the OUT of 20, InsufficientStock and still 30 after the OUT of
\* 30.000001, then 0 in WH1 and 30 in WH2 after the TRANSFER.
ScenarioHolds ==
  \A p \in Procs :
    (pc[p] = "idle" /\ ops >= 1 /\ req[p] = Scenario[ops]) =>
      /\ ops = 1 => /\ result[p] = "ok"
                    /\ QtyOf(inventory, 1, 1, NULL) = 50 * Unit
      /\ ops = 2 => /\ result[p] = "ok"
                    /\ QtyOf(inventory, 1, 1, NULL) = 30 * Unit
      /\ ops = 3 => /\ result[p] = "InsufficientStock"
                    /\ QtyOf(inventory, 1, 1, NULL) = 30 * Unit
      /\ ops = 4 => /\ QtyOf(inventory, 1, 1, NULL) = 0
                    /\ QtyOf(inventory, 2, 1, NULL) = 30 * Unit

\* C8: a request with a quantity <= 0 ends with InvalidQuantity.
InvalidQuantityRejected ==
  \A p \in Procs :
    (Finished(p) /\ req[p].qty <= 0) => result[p] = "InvalidQuantity"

\* C9: the committed Ledger Store holds at most one StockLine per
\* (warehouse, item, bin).
UniqueStockLine ==
  \A i \in 1..Len(inventory), j \in 1..Len(inventory) :
    SameKey(inventory[i], inventory[j]) => i = j

\* C10: on every table a connection can see, two lookups of the same key in
\* sequence return the same row id; the first adds at most one row, at
\* quantity 0 and with that key, and leaves the other rows as they were; the
\* second changes nothing.
IdempotentLookup ==
  \A tbl \in {inventory, txInv}, w \in Warehouses, i \in Items :
    LET r1 == GetOrCreateInv(tbl, w, i, NULL)
        r2 == GetOrCreateInv(r1.inv, w, i, NULL)
        n == Len(tbl)
    IN  /\ r1.id # 0
        /\ r2.id = r1.id
        /\ r2.inv = r1.inv
        /\ Len(r1.inv) \in {n, n + 1}
        /\ \A k \in 1..n : r1.inv[k] = tbl[k]
        /\ Len(r1.inv) = n + 1 =>
             r1.inv[n + 1] = [warehouse_id |-> w, item_id |-> i,
                              bin_id |-> NULL, qty |-> 0]
        /\ r1.inv[r1.id].warehouse_id = w
        /\ r1.inv[r1.id].item_id = i
        /\ r1.inv[r1.id].bin_id = NULL

\* C10 witness: within one transaction on an empty store the OUT leg of a
\* transfer created the row and the lookup of the IN leg returned that row.
LookedUpTwice ==
  \E p \in Procs :
    /\ lock = p
    /\ pc[p] = "apply"
    /\ req[p].kind = "TRANSFER" /\ req[p].wh = req[p].whTo
    /\ Head(legs[p]).op = "IN"
    /\ inventory = << >>
    /\ Len(txInv) = 1
    /\ row[p].id = 1

\* Order of two movement numbers as strings: "MIN.." < "MOUT.." < "MTR..",
\* then by the timestamp digits.
PrefixRank(prefix) ==
  CASE prefix = "MIN" -> 1
    [] prefix = "MOUT" -> 2
    [] prefix = "MTR" -> 3

NoLess(a, b) ==
  \/ PrefixRank(a[1]) < PrefixRank(b[1])
  \/ a[1] = b[1] /\ a[2] < b[2]

\* C11: the movement number of every record in the log is strictly greater
\* than the number of every record appended before it, and so differs from
\* every other number.
MovementIdsIncrease ==
  \A i \in 1..Len(stock_movements), j \in 1..Len(stock_movements) :
    i < j => NoLess(stock_movements[i].movement_no, stock_movements[j].movement_no)

\* C12: the step that ends an IN request with a quantity > 0 is a commit:
\* the request succeeds, the StockLine has grown by exactly the quantity and
\* one IN record has been appended.
InAlwaysSucceeds ==
  [][\A p \in Procs :
       ( /\ req[p].kind = "IN"
         /\ req[p].qty > 0
         /\ pc[p] # "idle"
         /\ pc'[p] = "idle" )
       => LET n == Len(stock_movements)
          IN  /\ result'[p] = "ok"
              /\ QtyOf(inventory', req[p].wh, req[p].item, req[p].bin)
                   = QtyOf(inventory, req[p].wh, req[p].item, req[p].bin) + req[p].qty
              /\ Len(stock_movements') = n + 1
              /\ stock_movements'[n + 1].movement_type = "IN"]_vars

\* Records a step adds to the committed log.
NewRecords == {k \in 1..Len(stock_movements') : k > Len(stock_movements)}

\* C13: a step in which a write of a request is rejected leaves the committed
\* tables as they were; a step that changes the quantity of a StockLine also
\* commits an IN or OUT record for its key; and a step commits as many OUT
\* legs of transfers as IN legs and TRANSFER markers.
NoUpdateWithoutMovement ==
  [][ /\ \A p \in Procs :
           (pc[p] # "idle" /\ result'[p] = "IntegrityError")
           => /\ inventory' = inventory
              /\ stock_movements' = stock_movements
              /\ lock' # p
      /\ \A w \in Warehouses, i \in Items :
           QtyOf(inventory', w, i, NULL) # QtyOf(inventory, w, i, NULL)
           => \E k \in NewRecords :
                /\ stock_movements'[k].warehouse_id = w
                /\ stock_movements'[k].item_id = i
                /\ stock_movements'[k].bin_id = NULL
                /\ stock_movements'[k].movement_type \in {"IN", "OUT"}
      /\ LET outs == {k \in NewRecords :
                        /\ stock_movements'[k].movement_type = "OUT"
                        /\ stock_movements'[k].ref_entity = "TRANSFER"}
             ins == {k \in NewRecords :
                        /\ stock_movements'[k].movement_type = "IN"
                        /\ stock_movements'[k].ref_entity = "TRANSFER"}
             marks == {k \in NewRecords :
                        stock_movements'[k].movement_type = "TRANSFER"}
         IN  /\ Cardinality(outs) = Cardinality(ins)
             /\ Cardinality(ins) = Cardinality(marks) ]_vars

\* C13 witness: a transfer between two warehouses was rejected on a movement
\* insert after its OUT leg had been written (its lookup of the destination
\* had run), and the source line still has the quantity the log replays.
TransferRejectedAfterOutLeg ==
  \E p \in Procs :
    /\ Finished(p)
    /\ req[p].kind = "TRANSFER"
    /\ req[p].wh # req[p].whTo
    /\ result[p] = "IntegrityError"
    /\ row[p].id # 0
    /\ row[p].id # SelectInv(inventory, req[p].wh, req[p].item, NULL)
    /\ \A o \in Procs : pc[o] = "idle"
    /\ ReplayEquivalence

\* C14: every step keeps each committed movement record, with all its
\* fields, at its place in the log; the log only grows.
AppendOnlyLog ==
  [][ /\ Len(stock_movements') >= Len(stock_movements)
      /\ \A k \in 1..Len(stock_movements) :
           stock_movements'[k] = stock_movements[k] ]_vars

\* C14 witness: a commit has added records behind records that were already
\* in the log.
LogHasGrownTwice ==
  /\ Len(stock_movements) >= 2
  /\ \E p \in Procs, q \in Procs :
       /\ p # q
       /\ Finished(p) /\ Finished(q)
       /\ result[p] = "ok" /\ result[q] = "ok"

\* C18: every step keeps every committed StockLine at its place with its key
\* (no row is deleted, the set of keys only grows), and every key the
\* committed log has an IN or OUT record for has a row, also at quantity 0.
StockLinePersists ==
  [][ /\ Len(inventory') >= Len(inventory)
      /\ \A k \in 1..Len(inventory) : SameKey(inventory'[k], inventory[k])
      /\ \A k \in 1..Len(stock_movements') :
           stock_movements'[k].movement_type \in {"IN", "OUT"}
           => SelectInv(inventory', stock_movements'[k].warehouse_id,
                        stock_movements'[k].item_id,
                        stock_movements'[k].bin_id) # 0 ]_vars

\* C18 witness: a committed StockLine is back at quantity 0 after OUT
\* movements of a quantity > 0 on its key.
ZeroRowPersists ==
  \E k \in 1..Len(inventory) :
    /\ inventory[k].qty = 0
    /\ \E j \in 1..Len(stock_movements) :
         /\ stock_movements[j].movement_type = "OUT"
         /\ stock_movements[j].warehouse_id = inventory[k].warehouse_id
         /\ stock_movements[j].item_id = inventory[k].item_id
         /\ stock_movements[j].qty > 0

\* Requests of session p that touch only the StockLine of warehouse p.
DisjointRequests(p) ==
  {Request("IN", p, NULL, i, NULL, 10 * Unit) : i \in Items}
  \cup {Request("OUT", p, NULL, i, NULL, 8 * Unit) : i \in Items}
  \cup {Request("TRANSFER", p, p, i, NULL, 8 * Unit) : i \in Items}

BeginDisjoint(p) == ops < MaxOps /\ \E r \in DisjointRequests(p) : Start(p, r)

NextDisjoint == (\E p \in Procs : BeginDisjoint(p)) \/ (\E p \in Procs : Step(p)) \/ Tick

\* The two sessions work on disjoint keys, each on the line of its own
\* warehouse, with every interleaving of their steps.
SpecDisjoint == Init /\ [][NextDisjoint]_vars

\* Committed movement records on the key of warehouse w.
RecordsOf(w) ==
  {k \in 1..Len(stock_movements) :
     /\ stock_movements[k].warehouse_id = w
     /\ stock_movements[k].movement_type \in {"IN", "OUT"}}

\* Outcome of the first request of session p when it runs alone on the empty
\* ledger: an IN is stored, an OUT or a transfer finds no stock.
OutcomeAlone(p) ==
  IF req[p].kind = "IN"
    THEN /\ result[p] = "ok"
         /\ QtyOf(inventory, p, req[p].item, NULL) = req[p].qty
         /\ Cardinality(RecordsOf(p)) = 1
    ELSE /\ result[p] = "InsufficientStock"
         /\ SelectInv(inventory, p, req[p].item, NULL) = 0
         /\ RecordsOf(p) = {}

\* C19: when the first requests of the two sessions, on disjoint keys, have
\* run at the same time, both have completed and the ledger and the log
\* hold for each key what the request on it leaves when run alone.
DisjointKeysAsSerial ==
  \A p \in Procs, q \in Procs :
    ( /\ p # q
      /\ ops = 2
      /\ Finished(p) /\ Finished(q)
      /\ q \in overlap[p] )
    => OutcomeAlone(p) /\ OutcomeAlone(q)

\* Movement records of a kind a step adds to the committed log for a
\* reference document.
NewRecordsFor(type, refEntity, refId) ==
  {k \in NewRecords : /\ stock_movements'[k].movement_type = type
                      /\ stock_movements'[k].ref_entity = refEntity
                      /\ stock_movements'[k].ref_id = refId}

\* The delivery_items rows of a delivery.
LinesOf(d) ==
  {k \in 1..Len(documents.delivery_items) : documents.delivery_items[k].delivery_id = d}

\* C15: the step in which an OUT of a shipment fails with InsufficientStock
\* leaves the delivery's status, the ledger and the log as committed before;
\* and a step that makes a delivery shipped is the commit of a shipment of it
\* that stores one OUT record for every line of the delivery.
ShippedOnlyOnSuccess ==
  [][ /\ \A p \in Procs :
           ( /\ req[p].kind = "SHIP"
             /\ pc[p] # "idle"
             /\ result'[p] = "InsufficientStock" )
           => /\ documents' = documents
              /\ inventory' = inventory
              /\ stock_movements' = stock_movements
      /\ \A d \in 1..Len(documents.deliveries) :
           ( /\ documents'.deliveries[d].status = "shipped"
             /\ documents.deliveries[d].status # "shipped" )
           => \E p \in Procs :
                /\ req[p].kind = "SHIP"
                /\ req[p].doc = d
                /\ pc[p] = "commit"
                /\ result'[p] = "ok"
                /\ Cardinality(NewRecordsFor("OUT", "DO", d))
                     = Cardinality(LinesOf(d)) ]_vars

\* C15 witness: a shipment has failed with InsufficientStock on its second
\* line, after the OUT of its first line had taken 8 of the 10 in stock, and
\* the delivery is still in status created with 10 in stock.
ShipFailedAfterFirstLine ==
  \E p \in Procs :
    /\ Finished(p)
    /\ req[p].kind = "SHIP"
    /\ result[p] = "InsufficientStock"
    /\ row[p].qty = 2 * Unit
    /\ QtyOf(inventory, req[p].wh, 1, NULL) = 10 * Unit
    /\ documents.deliveries[req[p].doc].status = "created"

\* C16: the step in which a goods receipt ends in a failure leaves the
\* goods_receipts table, the purchase orders, the ledger and the log as
\* committed before; and a step that changes goods_receipts or a purchase
\* order's status is the commit of a goods receipt that stores one new row
\* and one IN record for every line of the purchase order.
ReceiptOnlyOnSuccess ==
  [][ /\ \A p \in Procs :
           ( /\ req[p].kind = "GRN"
             /\ pc[p] # "idle"
             /\ pc'[p] = "idle"
             /\ result'[p] # "ok" )
           => /\ documents' = documents
              /\ inventory' = inventory
              /\ stock_movements' = stock_movements
      /\ ( \/ documents'.goods_receipts # documents.goods_receipts
           \/ documents'.purchase_orders # documents.purchase_orders )
         => \E p \in Procs :
              LET n == Len(documents.goods_receipts)
              IN  /\ req[p].kind = "GRN"
                  /\ pc[p] = "commit"
                  /\ result'[p] = "ok"
                  /\ Len(documents'.goods_receipts) = n + 1
                  /\ documents'.goods_receipts[n + 1].po_id = req[p].doc
                  /\ documents'.purchase_orders[req[p].doc] = "delivered"
                  /\ Cardinality(NewRecordsFor("IN", "GRN", n + 1))
                       = Len(po_items(req[p].doc)) ]_vars

\* C16 witness: the goods receipt of the purchase order of two lines has
\* failed on the IN of its second line, after the IN of its first line had
\* added 10 inside the transaction; the order is still in status created.
ReceiptFailedOnSecondLine ==
  \E p \in Procs :
    /\ Finished(p)
    /\ req[p].kind = "GRN"
    /\ req[p].doc = 2
    /\ result[p] = "IntegrityError"
    /\ row[p].qty = QtyOf(inventory, req[p].wh, 1, NULL) + 10 * Unit
    /\ documents.purchase_orders[2] = "created"

\* C17: when a handler that called the engine (a goods receipt, a shipment,
\* a transfer) has returned with success, the audit log holds an entry of its
\* session for an entity other than a requisition.
AuditPerEngineCall ==
  \A p \in Procs :
    ( /\ Finished(p)
      /\ result[p] = "ok"
      /\ req[p].kind \in {"GRN", "SHIP", "TRANSFER"} )
    => \E k \in 1..Len(audit_logs) :
         /\ audit_logs[k].actor = p
         /\ audit_logs[k].entity_type # "REQ"

\* C20: a step in which the reports page shows a new valuation leaves the
\* ledger, the log, the document tables and the audit log, committed and
\* uncommitted, as they were.
ReportsReadOnly ==
  [][ report' # report
      => /\ inventory' = inventory
         /\ stock_movements' = stock_movements
         /\ documents' = documents
         /\ audit_logs' = audit_logs
         /\ txInv' = txInv
         /\ txMov' = txMov
         /\ txDoc' = txDoc
         /\ lock' = lock ]_vars

\* C20 witness: the reports page shows the valuation of a ledger that has
\* changed since the start, with movements, receipts and audit entries stored.
ReportShown ==
  /\ report = TotalValue(inventory, Len(inventory))
  /\ report # 0
  /\ report # 10 * Unit
  /\ Len(stock_movements) > 1
  /\ Len(audit_logs) > 0

\* C21: the step in which a session runs the IN of a leg and is not rejected
\* appends one record of kind IN with the leg's warehouse as warehouse, no
\* destination warehouse, the leg's item and quantity, and the reason of the
\* leg's reference type ("GRN" for a goods receipt, "TRANSFER" for the IN leg
\* of a transfer).
InProvenance ==
  [][\A p \in Procs :
       ( /\ pc[p] = "apply"
         /\ Head(legs[p]).op = "IN"
         /\ pc'[p] \notin {"apply", "idle"} )
       => LET leg == Head(legs[p])
              n == Len(txMov')
          IN  /\ lock' = p
              /\ n > 0
              /\ txMov'[n].movement_type = "IN"
              /\ txMov'[n].warehouse_id = leg.wh
              /\ txMov'[n].warehouse_to_id = NULL
              /\ txMov'[n].item_id = leg.item
              /\ txMov'[n].qty = leg.qty
              /\ txMov'[n].ref_entity = leg.ref_entity
              /\ txMov'[n].reason = leg.ref_entity]_vars

\* C22: the commit of a Ship action on a delivery that already has status
\* shipped changes no StockLine quantity and appends no movement record.
ShippedAtMostOnce ==
  [][\A p \in Procs :
       ( /\ req[p].kind = "SHIP"
         /\ pc[p] = "commit"
         /\ pc'[p] = "idle"
         /\ documents.deliveries[req[p].doc].status = "shipped" )
       => /\ inventory' = inventory
          /\ stock_movements' = stock_movements]_vars

\* C23: the step in which a Ship action ends in a failure, whichever line
\* it fails on and for whatever reason, leaves every StockLine, the Movement
\* Log and the delivery as committed before, and releases the deductions of
\* the lines before it.
ShipAllOrNothing ==
  [][\A p \in Procs :
       ( /\ req[p].kind = "SHIP"
         /\ pc[p] # "idle"
         /\ pc'[p] = "idle"
         /\ result'[p] # "ok" )
       => /\ inventory' = inventory
          /\ stock_movements' = stock_movements
          /\ documents' = documents
          /\ lock' # p
          /\ (lock = p => txInv' = << >> /\ txMov' = << >>)]_vars

\* C23 witness: the Ship of the delivery of two lines has been rejected on
\* the movement insert of its second line, after its first line had deducted
\* 8 inside the transaction; stock and log are as before the action.
ShipRejectedOnSecondLine ==
  \E p \in Procs :
    /\ Finished(p)
    /\ req[p].kind = "SHIP"
    /\ Cardinality(LinesOf(req[p].doc)) = 2
    /\ result[p] = "IntegrityError"
    /\ row[p].qty = QtyOf(inventory, req[p].wh, 1, NULL) - 8 * Unit
    /\ \A k \in 1..Len(stock_movements) : stock_movements[k].ref_entity # "DO"

RECURSIVE OrderedQty(_, _)
\* The sum of the quantities of the lines of a purchase order for an item.
OrderedQty(lines, item) ==
  IF lines = << >> THEN 0
  ELSE (IF Head(lines).item = item THEN Head(lines).qty ELSE 0)
       + OrderedQty(Tail(lines), item)

\* C24: the commit of a Record Goods Receipt action adds to the unbinned
\* stock of the chosen warehouse, for every item, exactly the quantities of
\* the lines of its purchase order, whatever has been received for the order
\* before, and appends one IN record per line, of the line's item and
\* quantity, referencing ("GRN", id of the new goods_receipts row).
ReceiptAddsFullOrder ==
  [][\A p \in Procs :
       ( /\ req[p].kind = "GRN"
         /\ pc[p] = "commit"
         /\ pc'[p] = "idle" )
       => LET lines == po_items(req[p].doc)
              new == NewRecordsFor("IN", "GRN", Len(documents.goods_receipts) + 1)
          IN  /\ \A i \in Items :
                   QtyOf(inventory', req[p].wh, i, NULL)
                     = QtyOf(inventory, req[p].wh, i, NULL) + OrderedQty(lines, i)
              /\ Cardinality(new) = Len(lines)
              /\ NewRecords = new
              /\ \A l \in 1..Len(lines) :
                   LET k == Len(stock_movements) + l
                   IN  /\ stock_movements'[k].warehouse_id = req[p].wh
                       /\ stock_movements'[k].item_id = lines[l].item
                       /\ stock_movements'[k].bin_id = NULL
                       /\ stock_movements'[k].qty = lines[l].qty]_vars

\* C24 witness: the first purchase order, received before, has been received
\* again: it has two goods_receipts rows and its 10 are in stock a second
\* time, each receipt with its own IN record.
OrderReceivedTwice ==
  /\ Len(documents.goods_receipts) = 2
  /\ documents.goods_receipts[1].po_id = 1
  /\ documents.goods_receipts[2].po_id = 1
  /\ QtyOf(inventory, 1, 1, NULL) = 20 * Unit
  /\ \E k \in 1..Len(stock_movements) :
       /\ stock_movements[k].movement_type = "IN"
       /\ stock_movements[k].ref_entity = "GRN"
       /\ stock_movements[k].ref_id = 2

\* C25: the commit of a TRANSFER from a warehouse to the same warehouse
\* leaves the quantity of its StockLine as committed before, and the line
\* holds at least the transferred quantity (within 1e-6).
SelfTransferNeutral ==
  [][\A p \in Procs :
       ( /\ req[p].kind = "TRANSFER"
         /\ req[p].wh = req[p].whTo
         /\ pc[p] = "commit"
         /\ pc'[p] = "idle" )
       => /\ QtyOf(inventory', req[p].wh, req[p].item, NULL)
               = QtyOf(inventory, req[p].wh, req[p].item, NULL)
          /\ ~BelowEps(QtyOf(inventory, req[p].wh, req[p].item, NULL), req[p].qty)]_vars

\* C26: the commit of a TRANSFER leaves every committed StockLine other than
\* the unbinned lines of its item in its source and destination warehouse as
\* it was (lines with a bin, of other items, of other warehouses), adds no
\* line other than these two, and every record it appends is of its item,
\* without bin, in its source or destination warehouse.
TransferFrame ==
  [][\A p \in Procs :
       ( /\ req[p].kind = "TRANSFER"
         /\ pc[p] = "commit"
         /\ pc'[p] = "idle" )
       => LET touched(r) == /\ r.item_id = req[p].item
                            /\ r.bin_id = NULL
                            /\ r.warehouse_id \in {req[p].wh, req[p].whTo}
          IN  /\ \A k \in 1..Len(inventory) :
                   ~touched(inventory[k]) => inventory'[k] = inventory[k]
              /\ \A k \in 1..Len(inventory') :
                   k > Len(inventory) => touched(inventory'[k])
              /\ \A k \in NewRecords : touched(stock_movements'[k])]_vars

\* C26 witness: a transfer of item 1 from warehouse 1 to warehouse 2 has been
\* committed, and the lines of item 2 hold the 5 and 7 they held before.
TransferredBesideOtherLines ==
  \E p \in Procs :
    /\ Finished(p)
    /\ req[p] = Request("TRANSFER", 1, 2, 1, NULL, 8 * Unit)
    /\ result[p] = "ok"
    /\ QtyOf(inventory, 1, 1, NULL) = 2 * Unit
    /\ QtyOf(inventory, 2, 1, NULL) = 8 * Unit
    /\ QtyOf(inventory, 1, 2, NULL) = 5 * Unit
    /\ QtyOf(inventory, 2, 2, NULL) = 7 * Unit

\* The place of a status on the way of an invoice: received, matched, paid.
StatusRank(status) ==
  CASE status = "received" -> 1
    [] status = "matched" -> 2
    [] status = "paid" -> 3
    [] OTHER -> 0

\* C27: the status of an invoice only moves forward along received, matched,
\* paid: a step that makes an invoice matched is taken only for an invoice
\* whose quantities agree with its order within 1e-6, whose amounts agree
\* within 0.01 and whose order has a goods receipt, and no step moves a paid
\* invoice back to matched.
InvoiceStatusForward ==
  [][\A i \in 1..Len(documents.invoices) :
       LET old == documents.invoices[i].status
           new == documents'.invoices[i].status
       IN  /\ StatusRank(new) >= StatusRank(old)
           /\ (new = "matched" /\ old # "matched") => ThreeWayMatch(documents, i)
           /\ old = "paid" => new # "matched" ]_vars

====
